---- MODULE Spec2Model ----
(***************************************************************************)
(* Model of rust-pkg-lint (src/src/main.rs): a command-line check that     *)
(* every installed dependency of a package-lock.json carries both an       *)
(* `integrity` and a `resolved` field.                                     *)
(*                                                                         *)
(* Strings are sequences of one-character strings, so that is_empty and    *)
(* starts_with are computed rather than assumed.  A JSON value is a record *)
(* [kind, b, n, s, members]; `members` is the key/value list of an object  *)
(* in the iteration order of the parser's map.                             *)
(***************************************************************************)
EXTENDS Integers, Sequences, FiniteSets, TLC

----------------------------------------------------------------------------
(* Bounds of the model *)

\* largest number of entries of a generated `packages` object
MaxEntries == 2

----------------------------------------------------------------------------
(* serde_json::Value *)

Null == [kind |-> "null", b |-> FALSE, n |-> 0, s |-> <<>>, members |-> <<>>]

Bool(x) == [kind |-> "bool", b |-> x, n |-> 0, s |-> <<>>, members |-> <<>>]

Number(x) == [kind |-> "number", b |-> FALSE, n |-> x, s |-> <<>>, members |-> <<>>]

String(cs) == [kind |-> "string", b |-> FALSE, n |-> 0, s |-> cs, members |-> <<>>]

\* the empty array; the program never looks inside an array
Array == [kind |-> "array", b |-> FALSE, n |-> 0, s |-> <<>>, members |-> <<>>]

Object(ms) == [kind |-> "object", b |-> FALSE, n |-> 0, s |-> <<>>, members |-> ms]

\* Option<T>
None == [some |-> FALSE, val |-> <<>>]

Some(x) == [some |-> TRUE, val |-> x]

\* what a panicking call leaves in place of a Vec<String>
Panic == << <<"panic!">> >>

\* the string literals of the program
node_modules == <<"n","o","d","e","_","m","o","d","u","l","e","s">>

K_packages == <<"p","a","c","k","a","g","e","s">>

K_link == <<"l","i","n","k">>

K_integrity == <<"i","n","t","e","g","r","i","t","y">>

K_resolved == <<"r","e","s","o","l","v","e","d">>

K_name == <<"n","a","m","e">>

\* positions of `key` among the members of an object
KeyPos(ms, key) == {p \in 1..Len(ms) : ms[p][1] = key}

\* Value::index(&str): the member of an object, Null for a missing key and
\* for every value that is not an object
Index(val, key) ==
    IF val.kind = "object" /\ KeyPos(val.members, key) # {}
    THEN val.members[CHOOSE p \in KeyPos(val.members, key) : TRUE][2]
    ELSE Null

\* Value::as_object
as_object(val) == IF val.kind = "object" THEN Some(val.members) ELSE None

\* Value::as_str
as_str(val) == IF val.kind = "string" THEN Some(val.s) ELSE None

\* str::is_empty
is_empty(k) == Len(k) = 0

\* str::starts_with
starts_with(k, prefix) ==
    /\ Len(k) >= Len(prefix)
    /\ SubSeq(k, 1, Len(prefix)) = prefix

----------------------------------------------------------------------------
(* validate_json *)

\* entry_filter requiring both fields to be missing (&& for ||)
entry_filter_and(k, val) ==
    IF is_empty(k) THEN None
    ELSE IF ~starts_with(k, node_modules) THEN None
    ELSE IF Index(val, K_link) = Bool(TRUE) THEN None
    ELSE IF Index(val, K_integrity) = Null /\ Index(val, K_resolved) = Null
         THEN Some(k)
    ELSE None

\* entry_filter skipping every value that is not an object
entry_filter_objects(k, val) ==
    IF is_empty(k) THEN None
    ELSE IF ~starts_with(k, node_modules) THEN None
    ELSE IF ~as_object(val).some THEN None
    ELSE IF Index(val, K_link) = Bool(TRUE) THEN None
    ELSE IF Index(val, K_integrity) = Null \/ Index(val, K_resolved) = Null
         THEN Some(k)
    ELSE None

\* entry_filter taking a field that is not a string for a missing one
entry_filter_typed(k, val) ==
    IF is_empty(k) THEN None
    ELSE IF ~starts_with(k, node_modules) THEN None
    ELSE IF Index(val, K_link) = Bool(TRUE) THEN None
    ELSE IF ~as_str(Index(val, K_integrity)).some \/ ~as_str(Index(val, K_resolved)).some
         THEN Some(k)
    ELSE None

\* entry_filter exempting every entry whose `link` is neither null nor false
entry_filter_truthy(k, val) ==
    IF is_empty(k) THEN None
    ELSE IF ~starts_with(k, node_modules) THEN None
    ELSE IF Index(val, K_link) # Null /\ Index(val, K_link) # Bool(FALSE) THEN None
    ELSE IF Index(val, K_integrity) = Null \/ Index(val, K_resolved) = Null
         THEN Some(k)
    ELSE None

\* the filter_map closure: Some(key) for a violating entry, None otherwise
entry_filter(k, val) ==
    IF is_empty(k) THEN None
    ELSE IF ~starts_with(k, node_modules) THEN None
    ELSE IF Index(val, K_link) = Bool(TRUE) THEN None
    ELSE IF Index(val, K_integrity) = Null \/ Index(val, K_resolved) = Null
         THEN Some(k)
    ELSE None

RECURSIVE filter_map_rev(_)
\* filter_map collecting the kept keys in reverse
filter_map_rev(ms) ==
    IF ms = <<>> THEN <<>>
    ELSE LET r == entry_filter(ms[1][1], ms[1][2])
         IN  filter_map_rev(Tail(ms)) \o (IF r.some THEN <<r.val>> ELSE <<>>)

RECURSIVE filter_map(_)
\* packages.iter().filter_map(..).collect(): the kept keys, in iteration order
filter_map(ms) ==
    IF ms = <<>> THEN <<>>
    ELSE LET r == entry_filter(ms[1][1], ms[1][2])
         IN  (IF r.some THEN <<r.val>> ELSE <<>>) \o filter_map(Tail(ms))

\* Option::and_then applied to the packages map
and_then_collect(opt) == IF opt.some THEN Some(filter_map(opt.val)) ELSE None

\* or_else_empty without the fallback
or_else_none(opt) == opt

\* Option::or_else(|| Some(Vec::new()))
or_else_empty(opt) == IF opt.some THEN opt ELSE Some(<<>>)

\* Option::unwrap
unwrap(opt) == IF opt.some THEN opt.val ELSE Panic

\* validate_json looking at `packages` only in lockfiles of version 3 and later
validate_json_versioned(json) ==
    IF Index(json, <<"l","o","c","k","f","i","l","e","V","e","r","s","i","o","n">>).kind = "number"
       /\ Index(json, <<"l","o","c","k","f","i","l","e","V","e","r","s","i","o","n">>).n < 3
    THEN <<>>
    ELSE unwrap(or_else_empty(and_then_collect(as_object(Index(json, K_packages)))))

validate_json(json) ==
    unwrap(or_else_empty(and_then_collect(as_object(Index(json, K_packages)))))

----------------------------------------------------------------------------
(* Input space: lockfiles the file system can hold *)

\* marks a field left out of a generated object; never part of a document
Absent == [kind |-> "absent", b |-> FALSE, n |-> 0, s |-> <<>>, members |-> <<>>]

Member(key, x) == IF x = Absent THEN <<>> ELSE << <<key, x>> >>

K_lockfileVersion == <<"l","o","c","k","f","i","l","e","V","e","r","s","i","o","n">>

K_dependencies == <<"d","e","p","e","n","d","e","n","c","i","e","s">>

S_true == <<"t","r","u","e">>

S_sha == <<"s","h","a">>

S_app == <<"a","p","p">>

\* keys of `packages`: the root project, two installed dependencies, a key one
\* character short of the prefix, and a workspace path that only contains it
KeyPool ==
    { <<>>,
      node_modules,
      node_modules \o <<"/","a">>,
      SubSeq(node_modules, 1, Len(node_modules) - 1),
      <<"w","/">> \o node_modules }

LinkPool == {Absent, Null, Bool(TRUE), Bool(FALSE), String(S_true), Number(1)}

FieldPool ==
    {Absent, Null, String(S_sha), String(<<>>), Number(0), Bool(FALSE), Array,
     Object(<<>>)}

EntryObject(l, i, r) ==
    Object(Member(K_link, l) \o Member(K_integrity, i) \o Member(K_resolved, r))

NonObjects == {Null, String(S_sha), Number(1), Bool(TRUE), Array}

\* every shape of one entry
RichEntries ==
    {EntryObject(l, i, r) : l \in LinkPool, i \in FieldPool, r \in FieldPool}
        \cup NonObjects

\* the shapes used in objects of several entries: complete, lacking
\* `integrity`, and not an object at all
SmallEntries ==
    { EntryObject(Absent, String(S_sha), String(S_sha)),
      EntryObject(Absent, Absent, String(S_sha)),
      String(S_sha) }

DistinctKeys(ms) == \A p, q \in 1..Len(ms) : p # q => ms[p][1] # ms[q][1]

EntryLists ==
    {ms \in UNION {[1..len -> KeyPool \X SmallEntries] : len \in 0..MaxEntries} :
        DistinctKeys(ms)}

PackagesPool ==
    {Absent, Null, Array, String(S_sha), Number(1), Bool(TRUE)}
        \cup {Object(ms) : ms \in EntryLists}

NamePool == {Absent, Null, String(S_app), Number(1)}

\* lockfileVersion and the legacy `dependencies` section
ExtrasPool ==
    { <<Absent, Absent>>,
      <<Number(2), Object(<< <<S_app, Object(<<>>)>> >>)>>,
      <<Number(3), Absent>> }

Root(name, extras, packages) ==
    Object(Member(K_name, name) \o Member(K_lockfileVersion, extras[1])
           \o Member(K_packages, packages) \o Member(K_dependencies, extras[2]))

RichDocs ==
    {Root(Absent, <<Absent, Absent>>, Object(<< <<k, e>> >>)) :
        k \in KeyPool, e \in RichEntries}

VariedDocs ==
    {Root(nm, ex, pk) : nm \in NamePool, ex \in ExtrasPool, pk \in PackagesPool}

\* two installed dependencies without `integrity` and `resolved`, one `link`
\* each
LinkDocs ==
    {Root(Absent, <<Absent, Absent>>,
          Object(<< <<k1, EntryObject(l1, Absent, Absent)>>,
                    <<k2, EntryObject(l2, Absent, Absent)>> >>)) :
        k1 \in {node_modules}, k2 \in {node_modules \o <<"/","a">>},
        l1 \in LinkPool, l2 \in LinkPool}

Docs == RichDocs \cup VariedDocs \cup LinkDocs \cup NonObjects

\* a file: whether it can be read, whether from_str accepts its text, and the
\* value from_str yields for it
NoFile == [exists |-> FALSE, valid |-> FALSE, json |-> Null]

Malformed == [exists |-> TRUE, valid |-> FALSE, json |-> Null]

Lockfile(d) == [exists |-> TRUE, valid |-> TRUE, json |-> d]

Files == {NoFile, Malformed} \cup {Lockfile(d) : d \in Docs}

S_dot == <<".">>

S_dir == <<"d">>

S_prog == <<"p">>

Dirs == {S_dot, S_dir}

----------------------------------------------------------------------------
(* The process *)

VARIABLES
    args,          \* std::env::args()
    fs,            \* directory -> the package-lock.json in it
    pc,            \* position of main
    data,          \* the text read from the lockfile
    v,             \* the parsed document
    missing,       \* the list returned by validate_json
    idx,           \* number of elements of `missing` already printed
    out,           \* the lines written to standard output
    exit,          \* the exit code, "none" while running
    trace,         \* the steps taken so far (history)
    locks,         \* the lockfile texts of the test module
    li,            \* number of lockfiles the test loop has handled
    results        \* the list validate_json returned for each of them

vars == <<args, fs, pc, data, v, missing, idx, out, exit, trace, locks, li, results>>

mainVars == <<args, fs, pc, data, v, missing, idx, out, exit, trace>>

testVars == <<locks, li, results>>

\* Result<T, Error>
Ok(x) == [ok |-> TRUE, val |-> x]

Err(x) == [ok |-> FALSE, val |-> x]

NoText == [valid |-> FALSE, json |-> Null]

read_package_lock(dir) ==
    IF dir \in DOMAIN fs /\ fs[dir].exists
    THEN Ok([valid |-> fs[dir].valid, json |-> fs[dir].json])
    ELSE Err(NoText)

parse_json(text) == IF text.valid THEN Ok(text.json) ELSE Err(Null)

\* a println!: what was printed and the value interpolated into it
Line(tag, named, text) == [tag |-> tag, named |-> named, text |-> text]

\* let cwd = if args.len() > 1 { &args[1] } else { "." }
Cwd == IF Len(args) > 1 THEN args[2] ELSE S_dot

\* Header printing every name that is not null
Header_any(json) ==
    IF Index(json, K_name) # Null THEN Line("header", TRUE, Index(json, K_name).s)
    ELSE Line("header", FALSE, <<>>)

\* the header of the report, with the document's name when it is a string
Header(json) ==
    LET name == as_str(Index(json, K_name))
    IN  IF name.some THEN Line("header", TRUE, name.val)
        ELSE Line("header", FALSE, <<>>)

Init ==
    /\ \E target \in Dirs, f \in Files :
         fs = [d \in Dirs |-> IF d = target THEN f ELSE NoFile]
    /\ args \in {<<S_prog>>, <<S_prog, S_dir>>}
    /\ pc = "start"
    /\ data = NoText
    /\ v = Null
    /\ missing = <<>>
    /\ idx = 0
    /\ out = <<>>
    /\ exit = "none"
    /\ trace = <<>>
    /\ locks = <<>>
    /\ li = 0
    /\ results = <<>>

\* the lockfile cannot be read
ReadErr ==
    /\ pc = "start"
    /\ ~read_package_lock(Cwd).ok
    /\ trace' = Append(trace, "read")
    /\ out' = Append(out, Line("read_error", TRUE, Cwd))
    /\ exit' = "FAILURE"
    /\ pc' = "done"
    /\ UNCHANGED <<args, fs, data, v, missing, idx>>
    /\ UNCHANGED testVars

ReadOk ==
    /\ pc = "start"
    /\ read_package_lock(Cwd).ok
    /\ trace' = Append(trace, "read")
    /\ data' = read_package_lock(Cwd).val
    /\ pc' = "read"
    /\ UNCHANGED <<args, fs, v, missing, idx, out, exit>>
    /\ UNCHANGED testVars

\* ParseErr without its return: main goes on with a null document
ParseErr_fallthrough ==
    /\ pc = "read"
    /\ ~parse_json(data).ok
    /\ trace' = Append(trace, "parse")
    /\ out' = Append(out, Line("parse_error", FALSE, <<>>))
    /\ v' = Null
    /\ pc' = "parsed"
    /\ UNCHANGED <<args, fs, data, missing, idx, exit>>
    /\ UNCHANGED testVars

\* the text is not JSON
ParseErr ==
    /\ pc = "read"
    /\ ~parse_json(data).ok
    /\ trace' = Append(trace, "parse")
    /\ out' = Append(out, Line("parse_error", FALSE, <<>>))
    /\ exit' = "FAILURE"
    /\ pc' = "done"
    /\ UNCHANGED <<args, fs, data, v, missing, idx>>
    /\ UNCHANGED testVars

ParseOk ==
    /\ pc = "read"
    /\ parse_json(data).ok
    /\ trace' = Append(trace, "parse")
    /\ v' = parse_json(data).val
    /\ pc' = "parsed"
    /\ UNCHANGED <<args, fs, data, missing, idx, out, exit>>
    /\ UNCHANGED testVars

Validate ==
    /\ pc = "parsed"
    /\ trace' = Append(trace, "validate")
    /\ missing' = validate_json(v)
    /\ IF validate_json(v) = Panic
       THEN pc' = "done" /\ exit' = "PANIC"
       ELSE pc' = "validated" /\ exit' = exit
    /\ UNCHANGED <<args, fs, data, v, idx, out>>
    /\ UNCHANGED testVars

\* missing.len() > 0: the header line
ReportHeader ==
    /\ pc = "validated"
    /\ Len(missing) > 0
    /\ trace' = Append(trace, "report")
    /\ out' = Append(out, Header(v))
    /\ idx' = 0
    /\ pc' = "report"
    /\ UNCHANGED <<args, fs, data, v, missing, exit>>
    /\ UNCHANGED testVars

\* one turn of missing.iter().for_each
ReportEntry ==
    /\ pc = "report"
    /\ idx < Len(missing)
    /\ out' = Append(out, Line("entry", TRUE, missing[idx + 1]))
    /\ idx' = idx + 1
    /\ UNCHANGED <<args, fs, pc, data, v, missing, exit, trace>>
    /\ UNCHANGED testVars

\* ExitFailure without its return: main falls through to ExitCode::SUCCESS
ExitFailure_fallthrough ==
    /\ pc = "report"
    /\ idx = Len(missing)
    /\ exit' = "SUCCESS"
    /\ pc' = "done"
    /\ UNCHANGED <<args, fs, data, v, missing, idx, out, trace>>
    /\ UNCHANGED testVars

ExitFailure ==
    /\ pc = "report"
    /\ idx = Len(missing)
    /\ exit' = "FAILURE"
    /\ pc' = "done"
    /\ UNCHANGED <<args, fs, data, v, missing, idx, out, trace>>
    /\ UNCHANGED testVars

ExitSuccess ==
    /\ pc = "validated"
    /\ Len(missing) = 0
    /\ exit' = "SUCCESS"
    /\ pc' = "done"
    /\ UNCHANGED <<args, fs, data, v, missing, idx, out, trace>>
    /\ UNCHANGED testVars

Next ==
    \/ ReadErr
    \/ ReadOk
    \/ ParseErr
    \/ ParseOk
    \/ Validate
    \/ ReportHeader
    \/ ReportEntry
    \/ ExitFailure
    \/ ExitSuccess

Spec == Init /\ [][Next]_vars

----------------------------------------------------------------------------
(* The test module: parse each lockfile and validate it *)

PairPackages == {pk \in PackagesPool : pk.kind # "object" \/ Len(pk.members) <= 1}

PairDocs ==
    {Root(nm, ex, pk) : nm \in {Absent, String(S_app)}, ex \in ExtrasPool,
                        pk \in PairPackages}
        \cup {Null, Array}

InitTests ==
    /\ locks \in {<<[valid |-> TRUE, json |-> a], [valid |-> TRUE, json |-> b]>> :
                    a \in PairDocs, b \in PairDocs}
    /\ li = 0
    /\ results = <<>>
    /\ fs = [d \in Dirs |-> NoFile]
    /\ args = <<S_prog>>
    /\ pc = "test"
    /\ data = NoText
    /\ v = Null
    /\ missing = <<>>
    /\ idx = 0
    /\ out = <<>>
    /\ exit = "none"
    /\ trace = <<>>

\* one turn of the loop of test_good_json / test_bad_json: the list returned
\* for the lockfile, and the document as the call left it
TestStep ==
    /\ pc = "test"
    /\ li < Len(locks)
    /\ parse_json(locks[li + 1]).ok
    /\ LET json == parse_json(locks[li + 1]).val
       IN  results' = Append(results, [missing |-> validate_json(json), json |-> json])
    /\ li' = li + 1
    /\ UNCHANGED locks
    /\ UNCHANGED mainVars

NextTests == TestStep

SpecTests == InitTests /\ [][NextTests]_vars

----------------------------------------------------------------------------
(* Vocabulary of the properties, stated on the document itself *)

HasMember(val, key) ==
    /\ val.kind = "object"
    /\ \E p \in 1..Len(val.members) : val.members[p][1] = key

MemberOf(val, key) ==
    val.members[CHOOSE p \in 1..Len(val.members) : val.members[p][1] = key][2]

\* the field is absent or JSON null
FieldMissing(e, key) == ~HasMember(e, key) \/ MemberOf(e, key).kind = "null"

\* the field is exactly the boolean true
LinkIsTrue(e) ==
    /\ HasMember(e, K_link)
    /\ MemberOf(e, K_link).kind = "bool"
    /\ MemberOf(e, K_link).b

HasPrefix(k) ==
    /\ Len(k) >= Len(node_modules)
    /\ \A p \in 1..Len(node_modules) : k[p] = node_modules[p]

Listed(k, list) == \E p \in 1..Len(list) : list[p] = k

PackagesIsObject(doc) ==
    HasMember(doc, K_packages) /\ MemberOf(doc, K_packages).kind = "object"

\* the key/value pairs of `packages`, in iteration order
Entries(doc) == IF PackagesIsObject(doc) THEN MemberOf(doc, K_packages).members ELSE <<>>

EntryAt(doc) == 1..Len(Entries(doc))

\* the four conditions of the invariant
Violates(k, e) ==
    /\ k # <<>>
    /\ HasPrefix(k)
    /\ ~LinkIsTrue(e)
    /\ FieldMissing(e, K_integrity) \/ FieldMissing(e, K_resolved)

Ran(step) == \E p \in 1..Len(trace) : trace[p] = step

\* validate_json has returned to main
ValidatorReturned == Ran("validate") /\ pc \in {"validated", "report", "done"}

----------------------------------------------------------------------------
(* Properties *)

\* C1: when `packages` is an object, a key of it is in the list returned by
\* validate_json if and only if it is non-empty, starts with node_modules, its
\* entry's link is not true and integrity or resolved is absent or null; the
\* list is empty exactly when no entry meets the four conditions.
C1_ListedIffViolates ==
    (ValidatorReturned /\ PackagesIsObject(v)) =>
        /\ \A p \in EntryAt(v) :
             Listed(Entries(v)[p][1], missing)
                 <=> Violates(Entries(v)[p][1], Entries(v)[p][2])
        /\ (missing = <<>>)
                 <=> ~\E p \in EntryAt(v) : Violates(Entries(v)[p][1], Entries(v)[p][2])

C1_Witness ==
    /\ ValidatorReturned
    /\ Len(Entries(v)) = 2
    /\ Len(missing) = 1
    /\ \E p \in EntryAt(v) :
         HasPrefix(Entries(v)[p][1]) /\ ~Listed(Entries(v)[p][1], missing)

\* C2: when `packages` is absent or not an object, or the root is not an
\* object, validate_json returns the empty list.
C2_NoPackagesEmptyList ==
    (ValidatorReturned /\ ~PackagesIsObject(v)) => missing = <<>>

C2_Witness ==
    /\ ValidatorReturned
    /\ HasMember(v, K_packages)
    /\ MemberOf(v, K_packages).kind = "string"
    /\ exit = "SUCCESS"

\* C3 as stated: an entry under a node_modules key whose value is not an
\* object is not reported.
C3_NonObjectNotListed ==
    ValidatorReturned =>
        \A p \in EntryAt(v) :
            (HasPrefix(Entries(v)[p][1]) /\ Entries(v)[p][2].kind # "object")
                => ~Listed(Entries(v)[p][1], missing)

\* C3 amended: validate_json raises no error, and an entry under a
\* node_modules key whose value is not an object is reported, its link,
\* integrity and resolved fields all counting as absent.
C3_NonObjectListed ==
    ValidatorReturned =>
        /\ missing # Panic
        /\ \A p \in EntryAt(v) :
             (HasPrefix(Entries(v)[p][1]) /\ Entries(v)[p][2].kind # "object")
                 => Listed(Entries(v)[p][1], missing)

C3_Witness ==
    /\ pc = "done"
    /\ exit = "FAILURE"
    /\ \E p \in EntryAt(v) :
         /\ HasPrefix(Entries(v)[p][1])
         /\ Entries(v)[p][2].kind = "array"
         /\ missing = <<Entries(v)[p][1]>>

\* C4: an entry under a node_modules key, link not true, whose integrity and
\* resolved are both present and not null, of whatever type, is not reported;
\* a reported entry has integrity or resolved absent or null.
C4_WrongTypeNotMissing ==
    ValidatorReturned =>
        \A p \in EntryAt(v) :
            LET k == Entries(v)[p][1]
                e == Entries(v)[p][2]
            IN  /\ (/\ HasPrefix(k)
                    /\ ~LinkIsTrue(e)
                    /\ ~FieldMissing(e, K_integrity)
                    /\ ~FieldMissing(e, K_resolved)) => ~Listed(k, missing)
                /\ Listed(k, missing)
                     => (FieldMissing(e, K_integrity) \/ FieldMissing(e, K_resolved))

C4_Witness ==
    /\ ValidatorReturned
    /\ missing = <<>>
    /\ \E p \in EntryAt(v) :
         /\ HasPrefix(Entries(v)[p][1])
         /\ ~LinkIsTrue(Entries(v)[p][2])
         /\ HasMember(Entries(v)[p][2], K_integrity)
         /\ MemberOf(Entries(v)[p][2], K_integrity).kind = "number"
         /\ HasMember(Entries(v)[p][2], K_resolved)
         /\ MemberOf(Entries(v)[p][2], K_resolved) = Bool(FALSE)

\* C5: an entry whose link is the boolean true is never reported; an entry
\* under a node_modules key whose link is anything else (false, absent, null,
\* a string, a number) is reported when integrity or resolved is absent or null.
C5_OnlyTrueLinkExempt ==
    ValidatorReturned =>
        \A p \in EntryAt(v) :
            LET k == Entries(v)[p][1]
                e == Entries(v)[p][2]
            IN  /\ LinkIsTrue(e) => ~Listed(k, missing)
                /\ (/\ HasPrefix(k)
                    /\ ~LinkIsTrue(e)
                    /\ FieldMissing(e, K_integrity) \/ FieldMissing(e, K_resolved))
                     => Listed(k, missing)

C5_Witness ==
    /\ ValidatorReturned
    /\ Len(Entries(v)) = 2
    /\ LinkIsTrue(Entries(v)[1][2])
    /\ ~HasMember(Entries(v)[1][2], K_integrity)
    /\ ~HasMember(Entries(v)[1][2], K_resolved)
    /\ HasMember(Entries(v)[2][2], K_link)
    /\ MemberOf(Entries(v)[2][2], K_link) = String(S_true)
    /\ missing = <<Entries(v)[2][1]>>

\* the lockfile main looks for: the one in the directory of the first
\* argument, or in "." without an argument
Target == IF Len(args) >= 2 THEN fs[args[2]] ELSE fs[S_dot]

\* C6: the process ends with the success code and nothing printed if and only
\* if the lockfile was read, parsed, and validate_json returned an empty list;
\* in every other outcome it ends with the failure code after printing at
\* least one line.  It carries an exit code exactly when it has ended, and
\* until then it can take a step.
C6_SuccessIffClean ==
    /\ (pc = "done") <=> (exit # "none")
    /\ pc # "done" => ENABLED Next
    /\ pc = "done" =>
         IF Target.exists /\ Target.valid /\ Ran("validate") /\ missing = <<>>
         THEN exit = "SUCCESS" /\ out = <<>>
         ELSE exit = "FAILURE" /\ Len(out) >= 1

C6_Witness ==
    /\ pc = "done"
    /\ exit = "FAILURE"
    /\ Target.exists
    /\ Target.valid
    /\ Len(missing) = 2
    /\ Len(out) = 3

\* C7: the steps happen in the order read, parse, validate, report, each at
\* most once; an unreadable file ends the run before parsing, text that is not
\* JSON ends it before validation and no report is printed, and an error line
\* is the last thing the process does.
C7_StepsInOrder ==
    /\ \E len \in 0..4 : trace = SubSeq(<<"read", "parse", "validate", "report">>, 1, len)
    /\ ~Target.exists => (~Ran("parse") /\ ~Ran("validate"))
    /\ (Target.exists /\ ~Target.valid) =>
         /\ ~Ran("validate")
         /\ \A p \in 1..Len(out) : out[p].tag \notin {"header", "entry"}
    /\ (\E p \in 1..Len(out) : out[p].tag \in {"read_error", "parse_error"}) =>
         (pc = "done" /\ exit = "FAILURE" /\ Len(out) = 1)

C7_Witness ==
    /\ pc = "done"
    /\ Target.exists
    /\ ~Target.valid
    /\ trace = <<"read", "parse">>
    /\ out = <<Line("parse_error", FALSE, <<>>)>>

\* the header as the claim describes it
NamedHeader(doc) ==
    IF HasMember(doc, K_name) /\ MemberOf(doc, K_name).kind = "string"
    THEN Line("header", TRUE, MemberOf(doc, K_name).s)
    ELSE Line("header", FALSE, <<>>)

\* C8: when validate_json returns one or more keys, the output is one header
\* line followed by one line per key, in the order of the list, and the exit
\* code is failure; the header carries the name exactly when the root `name`
\* is present and a string.
C8_ReportShape ==
    (ValidatorReturned /\ Len(missing) > 0) =>
        /\ pc = "validated" => out = <<>>
        /\ pc \in {"report", "done"} =>
             /\ out = <<NamedHeader(v)>>
                        \o [p \in 1..idx |-> Line("entry", TRUE, missing[p])]
             /\ out[1].named
                  <=> (HasMember(v, K_name) /\ MemberOf(v, K_name).kind = "string")
        /\ pc = "done" => (idx = Len(missing) /\ exit = "FAILURE")

C8_Witness ==
    /\ pc = "done"
    /\ Len(missing) = 2
    /\ HasMember(v, K_name)
    /\ MemberOf(v, K_name).kind = "number"
    /\ Len(out) = 3
    /\ ~out[1].named
    /\ out[2].text = missing[1]
    /\ out[3].text = missing[2]

\* the value of `packages`, Absent when the document has none
PackagesValue(doc) ==
    IF HasMember(doc, K_packages) THEN MemberOf(doc, K_packages) ELSE Absent

\* C9: two documents with equal `packages` values get identical lists,
\* whatever their version, name and other root fields; the same document
\* validated twice gets the same list twice; a call leaves its document as it
\* was.
C9_OnlyPackagesMatter ==
    \A p, q \in 1..Len(results) :
        /\ PackagesValue(locks[p].json) = PackagesValue(locks[q].json)
             => results[p].missing = results[q].missing
        /\ results[p].json = locks[p].json

C9_Witness ==
    /\ Len(results) = 2
    /\ locks[1].json # locks[2].json
    /\ HasMember(locks[1].json, K_lockfileVersion)
    /\ MemberOf(locks[1].json, K_lockfileVersion) = Number(2)
    /\ ~HasMember(locks[2].json, K_lockfileVersion)
    /\ PackagesValue(locks[1].json) = PackagesValue(locks[2].json)
    /\ Len(results[1].missing) = 1

\* position of a key among the entries of `packages`
EntryPos(doc, k) == CHOOSE p \in EntryAt(doc) : Entries(doc)[p][1] = k

\* C10: validate_json never fails, and its list is a subsequence of the keys
\* of `packages` in iteration order: every element is a key, none appears
\* twice, and two elements stand in the order of their entries.
C10_SubsequenceOfKeys ==
    ValidatorReturned =>
        /\ missing # Panic
        /\ exit # "PANIC"
        /\ \A p \in 1..Len(missing) :
             \E q \in EntryAt(v) : Entries(v)[q][1] = missing[p]
        /\ \A p, q \in 1..Len(missing) :
             p < q => EntryPos(v, missing[p]) < EntryPos(v, missing[q])

C10_Witness ==
    /\ ValidatorReturned
    /\ Len(Entries(v)) = 2
    /\ Len(missing) = 2
    /\ Entries(v)[1][1] = node_modules
    /\ Entries(v)[2][1] = node_modules \o <<"/","a">>
    /\ missing = <<Entries(v)[1][1], Entries(v)[2][1]>>

====
